---- MODULE Spec2Model ----
(***************************************************************************)
(* Foodgram backend: relation handlers (favorite, shopping cart,           *)
(* subscription), shopping-list aggregation and the recipe write pipeline, *)
(* modelled as request handlers racing against one relational store.       *)
(* A handler is a sequence of store statements; every statement is one     *)
(* atomic step, and two workers interleave their statements freely.        *)
(***************************************************************************)
EXTENDS Integers, Sequences, FiniteSets, TLC

\* ---- bounds of the model -------------------------------------------------
NUsers == 2
NRecipes == 2
NIngredients == 3
MaxAmount == 3
MaxRequests == 3
NWorkers == 2
NAdminRecipes == 3
MaxCookingTime == 8

Users == 1 .. NUsers
RecipeIds == 1 .. NRecipes
IngredientIds == 1 .. NIngredients
Workers == 1 .. NWorkers
\* primary keys: rows present at start carry pk 0, a row inserted by the
\* n-th request carries pk n (the store never reuses a pk)
Pks == 0 .. MaxRequests

VARIABLES
    recipe,        \* Recipe table with its RecipeIngredient rows (committed)
    urr,           \* FavoriteRecipe and ShoppingCart tables: (user, recipe) -> pks
    subscription,  \* Subscription table: (user, author) -> pks
    avatar,        \* User.avatar: the stored file of each user, <<>> when empty
    pc,            \* position of each worker inside its handler
    req,           \* the request a worker is handling
    loc,           \* handler-local values (query results)
    resp,          \* the response of the last finished request
    tx,            \* open transaction of a worker (uncommitted recipe writes)
    nreq           \* number of requests received so far

vars == <<recipe, urr, subscription, avatar, pc, req, loc, resp, tx, nreq>>

\* ---- store schema ----------------------------------------------------------
RelationModels == {"FavoriteRecipe", "ShoppingCart"}

NoRecipe == [author |-> 0, cooking_time |-> 0, lines |-> {}]

\* RecipeIngredient rows of one recipe: (ingredient id, amount)
LineRows == IngredientIds \X (1 .. MaxAmount)

\* UniqueConstraint(recipe, ingredient): no two rows of a recipe share an ingredient
UniqueRecipeIngredient(lines) ==
    \A a \in lines : \A b \in lines : a[1] = b[1] => a = b

RecipeRows ==
    { ls \in SUBSET LineRows : ls # {} /\ UniqueRecipeIngredient(ls) }

\* Ingredient reference data: unique (name, measurement_unit) per id.
\* Ingredients 1 and 2 share a name and differ in unit.
IngredientName(i) == (i + 1) \div 2
IngredientUnit(i) == i % 2

\* ---- responses -------------------------------------------------------------
\* status, exception class, message, field errors of a serializer, payload,
\* and the boolean fields of a recipe representation that are true
NoResp ==
    [status |-> 0, exc |-> "none", detail |-> "none", errors |-> {}, body |-> <<>>,
     flags |-> {}]
Response(code) == [NoResp EXCEPT !.status = code]
ValidationError(msg) ==
    [NoResp EXCEPT !.status = 400, !.exc = "ValidationError", !.detail = msg]
Http404 == [NoResp EXCEPT !.status = 404, !.exc = "Http404", !.detail = "not_found"]
PermissionDenied == [NoResp EXCEPT !.status = 403, !.exc = "PermissionDenied"]
ServerError(e) == [NoResp EXCEPT !.status = 500, !.exc = e]

already_exists_message(model) ==
    IF model = "FavoriteRecipe" THEN "recipe_already_in_favorites"
    ELSE "recipe_already_in_shopping_list"

not_found_message(model) ==
    IF model = "FavoriteRecipe" THEN "recipe_was_not_in_favorites"
    ELSE "recipe_was_not_in_shopping_list"

SelfSubscribeMessage == "cannot_subscribe_to_yourself"
AlreadySubscribedMessage == "already_subscribed_to_this_user"
NotSubscribedMessage == "not_subscribed_to_this_user"

\* ---- requests --------------------------------------------------------------
NoReq == [view |-> "none", method |-> "none", model |-> "none",
          user |-> 0, target |-> 0, id |-> 0,
          ingredients |-> <<>>, has_ingredients |-> FALSE,
          cooking_time |-> 0, has_cooking_time |-> FALSE,
          avatar |-> "absent", value |-> "none"]

RelationReq(view, method, model, u, t, n) ==
    [NoReq EXCEPT !.view = view, !.method = method, !.model = model,
                  !.user = u, !.target = t, !.id = n]

NoLoc == [pk |-> 0, lines |-> <<>>, instance |-> NoRecipe]

Idle(w) == pc[w] \in {"idle", "done"}

Finish(w, r) ==
    /\ pc' = [pc EXCEPT ![w] = "done"]
    /\ resp' = [resp EXCEPT ![w] = r]

Goto(w, label) ==
    /\ pc' = [pc EXCEPT ![w] = label]
    /\ UNCHANGED resp

\* ---- get_or_create ---------------------------------------------------------
\* QuerySet.get on the rows matching the lookup
QueryGet(rows) ==
    IF rows = {} THEN "DoesNotExist"
    ELSE IF Cardinality(rows) = 1 THEN "one"
    ELSE "MultipleObjectsReturned"

\* a table created without the UniqueConstraint
UniqueViolation_Absent(rows) == FALSE

\* the store's answer to INSERT under UniqueConstraint(user, target)
UniqueViolation(rows) == rows # {}

\* ---- RecipeViewSet._handle_recipe_relation ------------------------------
RecipeRelationBegin(w, method, model, u, r) ==
    /\ Idle(w)
    /\ nreq < MaxRequests
    /\ nreq' = nreq + 1
    /\ req' = [req EXCEPT ![w] =
                  RelationReq("recipe_relation", method, model, u, r, nreq + 1)]
    /\ loc' = [loc EXCEPT ![w] = NoLoc]
    /\ IF recipe[r] = NoRecipe
         THEN Finish(w, Http404)
         ELSE /\ pc' = [pc EXCEPT ![w] = IF method = "POST" THEN "get" ELSE "first"]
              /\ resp' = [resp EXCEPT ![w] = NoResp]
    /\ UNCHANGED <<recipe, urr, subscription, avatar, tx>>

RelKey(w) == <<req[w].user, req[w].target>>
RelRows(w) == urr[req[w].model][RelKey(w)]

\* get_or_create, first lookup; `if not created: raise ValidationError`
RecipeRelationGet(w) ==
    /\ pc[w] = "get"
    /\ req[w].view = "recipe_relation"
    /\ CASE QueryGet(RelRows(w)) = "DoesNotExist" -> Goto(w, "create")
         [] QueryGet(RelRows(w)) = "one" ->
                Finish(w, ValidationError(already_exists_message(req[w].model)))
         [] OTHER -> Finish(w, ServerError("MultipleObjectsReturned"))
    /\ UNCHANGED <<recipe, urr, subscription, avatar, req, loc, tx, nreq>>

\* get_or_create, INSERT; an IntegrityError is caught inside get_or_create
RecipeRelationCreate(w) ==
    /\ pc[w] = "create"
    /\ req[w].view = "recipe_relation"
    /\ IF UniqueViolation(RelRows(w)) \/ recipe[req[w].target] = NoRecipe
         THEN /\ Goto(w, "reget")
              /\ UNCHANGED urr
         ELSE /\ urr' = [urr EXCEPT ![req[w].model][RelKey(w)] = @ \cup {req[w].id}]
              /\ Finish(w, Response(201))
    /\ UNCHANGED <<recipe, subscription, avatar, req, loc, tx, nreq>>

\* the IntegrityError escapes: no second lookup
RecipeRelationReget_Reraise(w) ==
    /\ pc[w] = "reget"
    /\ req[w].view = "recipe_relation"
    /\ Finish(w, ServerError("IntegrityError"))
    /\ UNCHANGED <<recipe, urr, subscription, avatar, req, loc, tx, nreq>>

\* get_or_create, lookup after the IntegrityError; re-raised when still absent
RecipeRelationReget(w) ==
    /\ pc[w] = "reget"
    /\ req[w].view = "recipe_relation"
    /\ CASE QueryGet(RelRows(w)) = "DoesNotExist" ->
                Finish(w, ServerError("IntegrityError"))
         [] QueryGet(RelRows(w)) = "one" ->
                Finish(w, ValidationError(already_exists_message(req[w].model)))
         [] OTHER -> Finish(w, ServerError("MultipleObjectsReturned"))
    /\ UNCHANGED <<recipe, urr, subscription, avatar, req, loc, tx, nreq>>

\* a remove that treats a missing relation as already removed
RecipeRelationFirst_Silent(w) ==
    /\ pc[w] = "first"
    /\ req[w].view = "recipe_relation"
    /\ IF RelRows(w) = {}
         THEN /\ Finish(w, Response(204))
              /\ UNCHANGED loc
         ELSE /\ \E pk \in RelRows(w) : loc' = [loc EXCEPT ![w].pk = pk]
              /\ Goto(w, "delete")
    /\ UNCHANGED <<recipe, urr, subscription, avatar, req, tx, nreq>>

\* filter(user, recipe).first(); `if not relation: raise ValidationError`
RecipeRelationFirst(w) ==
    /\ pc[w] = "first"
    /\ req[w].view = "recipe_relation"
    /\ IF RelRows(w) = {}
         THEN /\ Finish(w, ValidationError(not_found_message(req[w].model)))
              /\ UNCHANGED loc
         ELSE /\ \E pk \in RelRows(w) : loc' = [loc EXCEPT ![w].pk = pk]
              /\ Goto(w, "delete")
    /\ UNCHANGED <<recipe, urr, subscription, avatar, req, tx, nreq>>

\* relation.delete(): DELETE ... WHERE id = pk; the row count is not inspected
RecipeRelationDelete(w) ==
    /\ pc[w] = "delete"
    /\ req[w].view = "recipe_relation"
    /\ urr' = [urr EXCEPT ![req[w].model][RelKey(w)] = @ \ {loc[w].pk}]
    /\ Finish(w, Response(204))
    /\ UNCHANGED <<recipe, subscription, avatar, req, loc, tx, nreq>>

\* subscribe without the `current_user == author` test
SubscribeBegin_NoSelfCheck(w, method, u, a) ==
    /\ Idle(w)
    /\ nreq < MaxRequests
    /\ nreq' = nreq + 1
    /\ req' = [req EXCEPT ![w] =
                  RelationReq("subscribe", method, "Subscription", u, a, nreq + 1)]
    /\ loc' = [loc EXCEPT ![w] = NoLoc]
    /\ pc' = [pc EXCEPT ![w] = IF method = "POST" THEN "get" ELSE "first"]
    /\ resp' = [resp EXCEPT ![w] = NoResp]
    /\ UNCHANGED <<recipe, urr, subscription, avatar, tx>>

\* ---- UserViewSet.subscribe ----------------------------------------------
SubscribeBegin(w, method, u, a) ==
    /\ Idle(w)
    /\ nreq < MaxRequests
    /\ nreq' = nreq + 1
    /\ req' = [req EXCEPT ![w] =
                  RelationReq("subscribe", method, "Subscription", u, a, nreq + 1)]
    /\ loc' = [loc EXCEPT ![w] = NoLoc]
    /\ IF method = "POST" /\ u = a
         THEN Finish(w, ValidationError(SelfSubscribeMessage))
         ELSE /\ pc' = [pc EXCEPT ![w] = IF method = "POST" THEN "get" ELSE "first"]
              /\ resp' = [resp EXCEPT ![w] = NoResp]
    /\ UNCHANGED <<recipe, urr, subscription, avatar, tx>>

SubRows(w) == subscription[RelKey(w)]

SubscribeGet(w) ==
    /\ pc[w] = "get"
    /\ req[w].view = "subscribe"
    /\ CASE QueryGet(SubRows(w)) = "DoesNotExist" -> Goto(w, "create")
         [] QueryGet(SubRows(w)) = "one" ->
                Finish(w, ValidationError(AlreadySubscribedMessage))
         [] OTHER -> Finish(w, ServerError("MultipleObjectsReturned"))
    /\ UNCHANGED <<recipe, urr, subscription, avatar, req, loc, tx, nreq>>

SubscribeCreate(w) ==
    /\ pc[w] = "create"
    /\ req[w].view = "subscribe"
    /\ IF UniqueViolation(SubRows(w))
         THEN /\ Goto(w, "reget")
              /\ UNCHANGED subscription
         ELSE /\ subscription' = [subscription EXCEPT ![RelKey(w)] = @ \cup {req[w].id}]
              /\ Finish(w, Response(201))
    /\ UNCHANGED <<recipe, urr, avatar, req, loc, tx, nreq>>

SubscribeReget(w) ==
    /\ pc[w] = "reget"
    /\ req[w].view = "subscribe"
    /\ CASE QueryGet(SubRows(w)) = "DoesNotExist" ->
                Finish(w, ServerError("IntegrityError"))
         [] QueryGet(SubRows(w)) = "one" ->
                Finish(w, ValidationError(AlreadySubscribedMessage))
         [] OTHER -> Finish(w, ServerError("MultipleObjectsReturned"))
    /\ UNCHANGED <<recipe, urr, subscription, avatar, req, loc, tx, nreq>>

SubscribeFirst(w) ==
    /\ pc[w] = "first"
    /\ req[w].view = "subscribe"
    /\ IF SubRows(w) = {}
         THEN /\ Finish(w, ValidationError(NotSubscribedMessage))
              /\ UNCHANGED loc
         ELSE /\ \E pk \in SubRows(w) : loc' = [loc EXCEPT ![w].pk = pk]
              /\ Goto(w, "delete")
    /\ UNCHANGED <<recipe, urr, subscription, avatar, req, tx, nreq>>

SubscribeDelete(w) ==
    /\ pc[w] = "delete"
    /\ req[w].view = "subscribe"
    /\ subscription' = [subscription EXCEPT ![RelKey(w)] = @ \ {loc[w].pk}]
    /\ Finish(w, Response(204))
    /\ UNCHANGED <<recipe, urr, avatar, req, loc, tx, nreq>>

\* ---- initial stores --------------------------------------------------------
\* no open transaction; an open one holds the recipe row as its statements see
\* it and the RecipeIngredient rows it deleted and inserted
NoTx == [recipe |-> 0, row |-> NoRecipe, deleted |-> {}, inserted |-> {}]

EmptyUrr == [m \in RelationModels |-> [k \in Users \X RecipeIds |-> {}]]
EmptySubscription == [k \in Users \X Users |-> {}]
\* ImageField(blank=True, null=True): nothing stored
NoAvatars == [u \in Users |-> <<>>]

\* a catalogue in which recipe r is owned by a user and lists ingredient 1
DefaultRecipe(r) ==
    [author |-> ((r - 1) % NUsers) + 1, cooking_time |-> 1, lines |-> {<<1, 1>>}]

IdleWorkers ==
    /\ pc = [w \in Workers |-> "idle"]
    /\ req = [w \in Workers |-> NoReq]
    /\ loc = [w \in Workers |-> NoLoc]
    /\ resp = [w \in Workers |-> NoResp]
    /\ tx = [w \in Workers |-> NoTx]
    /\ nreq = 0

\* ---- relation requests, any interleaving of two workers --------------------
Init ==
    /\ recipe = [r \in RecipeIds |-> DefaultRecipe(r)]
    /\ urr = EmptyUrr
    /\ subscription = EmptySubscription
    /\ avatar = NoAvatars
    /\ IdleWorkers

RelationStep(w) ==
    \/ RecipeRelationGet(w)
    \/ RecipeRelationCreate(w)
    \/ RecipeRelationReget(w)
    \/ RecipeRelationFirst(w)
    \/ RecipeRelationDelete(w)
    \/ SubscribeGet(w)
    \/ SubscribeCreate(w)
    \/ SubscribeReget(w)
    \/ SubscribeFirst(w)
    \/ SubscribeDelete(w)

Next ==
    \E w \in Workers :
        \/ \E method \in {"POST", "DELETE"}, model \in RelationModels,
              u \in Users, r \in RecipeIds :
                RecipeRelationBegin(w, method, model, u, r)
        \/ \E method \in {"POST", "DELETE"}, u \in Users, a \in Users :
                SubscribeBegin(w, method, u, a)
        \/ RelationStep(w)

Spec == Init /\ [][Next]_vars

\* ---- api.permissions.IsAuthorOrReadOnly ------------------------------------
IsAuthor(u, r) == recipe[r].author = u

\* a delete that removes the Recipe row alone
DestroyRecipe_NoCascade(w, u, r) ==
    /\ Idle(w)
    /\ nreq < MaxRequests
    /\ nreq' = nreq + 1
    /\ req' = [req EXCEPT ![w] =
                  RelationReq("recipe_detail", "DELETE", "Recipe", u, r, nreq + 1)]
    /\ loc' = [loc EXCEPT ![w] = NoLoc]
    /\ IF recipe[r].author = 0
         THEN /\ Finish(w, Http404)
              /\ UNCHANGED <<recipe, urr>>
         ELSE IF ~ IsAuthor(u, r)
         THEN /\ Finish(w, PermissionDenied)
              /\ UNCHANGED <<recipe, urr>>
         ELSE /\ recipe' = [recipe EXCEPT ![r].author = 0, ![r].cooking_time = 0]
              /\ UNCHANGED urr
              /\ Finish(w, Response(204))
    /\ UNCHANGED <<subscription, avatar, tx>>

\* ---- RecipeViewSet destroy: Recipe row and its on_delete=CASCADE rows -----
DestroyRecipe(w, u, r) ==
    /\ Idle(w)
    /\ nreq < MaxRequests
    /\ nreq' = nreq + 1
    /\ req' = [req EXCEPT ![w] =
                  RelationReq("recipe_detail", "DELETE", "Recipe", u, r, nreq + 1)]
    /\ loc' = [loc EXCEPT ![w] = NoLoc]
    /\ IF recipe[r] = NoRecipe
         THEN /\ Finish(w, Http404)
              /\ UNCHANGED <<recipe, urr, avatar>>
         ELSE IF ~ IsAuthor(u, r)
         THEN /\ Finish(w, PermissionDenied)
              /\ UNCHANGED <<recipe, urr, avatar>>
         ELSE /\ recipe' = [recipe EXCEPT ![r] = NoRecipe]
              /\ urr' = [m \in RelationModels |->
                            [k \in Users \X RecipeIds |->
                                IF k[2] = r THEN {} ELSE urr[m][k]]]
              /\ Finish(w, Response(204))
    /\ UNCHANGED <<subscription, avatar, tx>>

\* ---- RecipeViewSet.download_shopping_cart -------------------------------
Store == [recipe |-> recipe, urr |-> urr, subscription |-> subscription]

\* the cart query without its user filter
CartRecipeRows_AllUsers(s, u) ==
    UNION { s.urr["ShoppingCart"][<<v, r>>] \X {r} :
              v \in Users, r \in { x \in RecipeIds : s.recipe[x] # NoRecipe } }

\* Recipe.objects.filter(shoppingcarts__user=user): one row per matching
\* ShoppingCart row of an existing recipe
CartRecipeRows(s, u) ==
    UNION { s.urr["ShoppingCart"][<<u, r>>] \X {r} :
              r \in { x \in RecipeIds : s.recipe[x] # NoRecipe } }

\* RecipeIngredient joined twice, once for the name and once for the amount
CartJoin_Fanout(s, u) ==
    UNION { { <<cr, <<l1[1], l2[2]>>, l2>> :
                l1 \in s.recipe[cr[2]].lines, l2 \in s.recipe[cr[2]].lines } :
              cr \in CartRecipeRows(s, u) }

\* the joined rows of values(ingredients__name, ingredients__measurement_unit)
\* with recipe_ingredients__amount: the recipe's RecipeIngredient rows, or
\* one all-NULL row (ingredient 0) for a recipe without any
CartJoin(s, u) ==
    UNION { {cr} \X (IF s.recipe[cr[2]].lines = {} THEN {<<0, 0>>}
                     ELSE s.recipe[cr[2]].lines) :
              cr \in CartRecipeRows(s, u) }

GroupKey(row) == <<IngredientName(row[2][1]), IngredientUnit(row[2][1])>>

RECURSIVE SumAmount(_)
SumAmount(rows) ==
    IF rows = {} THEN 0
    ELSE LET x == CHOOSE y \in rows : TRUE
         IN  x[2][2] + SumAmount(rows \ {x})

\* annotate(total_amount=Sum(...)) grouped by the values() columns
AggregatedLines(s, u) ==
    { [name |-> k[1], unit |-> k[2],
       total |-> SumAmount({ row \in CartJoin(s, u) : GroupKey(row) = k })] :
        k \in { GroupKey(row) : row \in CartJoin(s, u) } }

\* order_by(ingredients__name): any order of the lines that ascends by name
OrderedByName(ls) ==
    \A i \in 1 .. Len(ls) - 1 : ls[i].name <= ls[i + 1].name

Orderings(lineSet) ==
    { ls \in [1 .. Cardinality(lineSet) -> lineSet] :
        /\ \A i \in DOMAIN ls : \A j \in DOMAIN ls : ls[i] = ls[j] => i = j
        /\ OrderedByName(ls) }

EmptyCartMessage == "shopping_list_is_empty"

\* download without the `recipes.exists()` test
DownloadBegin_NoEmptyCheck(w, u) ==
    /\ Idle(w)
    /\ nreq < MaxRequests
    /\ nreq' = nreq + 1
    /\ req' = [req EXCEPT ![w] =
                  RelationReq("download_shopping_cart", "GET", "ShoppingCart",
                              u, 0, nreq + 1)]
    /\ loc' = [loc EXCEPT ![w] = NoLoc]
    /\ pc' = [pc EXCEPT ![w] = "aggregate"]
    /\ resp' = [resp EXCEPT ![w] = NoResp]
    /\ UNCHANGED <<recipe, urr, subscription, avatar, tx>>

\* recipes.exists()
DownloadBegin(w, u) ==
    /\ Idle(w)
    /\ nreq < MaxRequests
    /\ nreq' = nreq + 1
    /\ req' = [req EXCEPT ![w] =
                  RelationReq("download_shopping_cart", "GET", "ShoppingCart",
                              u, 0, nreq + 1)]
    /\ loc' = [loc EXCEPT ![w] = NoLoc]
    /\ IF CartRecipeRows(Store, u) = {}
         THEN Finish(w, ValidationError(EmptyCartMessage))
         ELSE /\ pc' = [pc EXCEPT ![w] = "aggregate"]
              /\ resp' = [resp EXCEPT ![w] = NoResp]
    /\ UNCHANGED <<recipe, urr, subscription, avatar, tx>>

\* the aggregate query is evaluated by the loop that numbers the lines;
\* .title() of a NULL name raises
DownloadAggregate(w) ==
    /\ pc[w] = "aggregate"
    /\ \E ls \in Orderings(AggregatedLines(Store, req[w].user)) :
          IF \E i \in DOMAIN ls : ls[i].name = 0
            THEN /\ Finish(w, ServerError("AttributeError"))
                 /\ UNCHANGED loc
            ELSE /\ loc' = [loc EXCEPT ![w].lines = ls]
                 /\ Goto(w, "recipes")
    /\ UNCHANGED <<recipe, urr, subscription, avatar, req, tx, nreq>>

\* `for recipe in recipes` and the FileResponse
DownloadRender(w) ==
    /\ pc[w] = "recipes"
    /\ Finish(w, [Response(200) EXCEPT !.body = loc[w].lines])
    /\ UNCHANGED <<recipe, urr, subscription, avatar, req, loc, tx, nreq>>

\* ---- shopping cart requests over a varied catalogue -------------------------
CatalogueAmount(r, i) == ((r * i) % MaxAmount) + 1

CatalogueRecipe(r, ings) ==
    [author |-> ((r - 1) % NUsers) + 1, cooking_time |-> 1,
     lines |-> { <<i, CatalogueAmount(r, i)>> : i \in ings }]

InitCart ==
    /\ \E f \in [RecipeIds -> (SUBSET IngredientIds) \ {{}}] :
          recipe = [r \in RecipeIds |-> CatalogueRecipe(r, f[r])]
    /\ urr = EmptyUrr
    /\ subscription = EmptySubscription
    /\ avatar = NoAvatars
    /\ IdleWorkers

NextCart ==
    \E w \in Workers :
        \/ \E method \in {"POST", "DELETE"}, u \in Users, r \in RecipeIds :
                RecipeRelationBegin(w, method, "ShoppingCart", u, r)
        \/ RecipeRelationGet(w)
        \/ RecipeRelationCreate(w)
        \/ RecipeRelationReget(w)
        \/ RecipeRelationFirst(w)
        \/ RecipeRelationDelete(w)
        \/ \E u \in Users, r \in RecipeIds : DestroyRecipe(w, u, r)
        \/ \E u \in Users : DownloadBegin(w, u)
        \/ DownloadAggregate(w)
        \/ DownloadRender(w)

SpecCart == InitCart /\ [][NextCart]_vars

\* ---- one download against any store left behind by earlier requests --------
InitScope ==
    /\ \E f \in [RecipeIds -> (SUBSET IngredientIds) \ {{}}] :
          recipe = [r \in RecipeIds |-> CatalogueRecipe(r, f[r])]
    /\ \E c \in [Users \X RecipeIds -> {{}, {0}}] :
          urr = [EmptyUrr EXCEPT !["ShoppingCart"] = c]
    /\ subscription = EmptySubscription
    /\ avatar = NoAvatars
    /\ pc = [w \in Workers |-> "idle"]
    /\ req = [w \in Workers |-> NoReq]
    /\ loc = [w \in Workers |-> NoLoc]
    /\ resp = [w \in Workers |-> NoResp]
    /\ tx = [w \in Workers |-> NoTx]
    /\ nreq = MaxRequests - 1

NextScope ==
    \E w \in Workers :
        \/ \E u \in Users : DownloadBegin(w, u)
        \/ DownloadAggregate(w)
        \/ DownloadRender(w)

SpecScope == InitScope /\ [][NextScope]_vars

\* ---- recipe write pipeline: RecipeWriteSerializer ---------------------------
RecipeReq(view, method, u, r, n, has, list, hasct, ct) ==
    [NoReq EXCEPT !.view = view, !.method = method, !.model = "Recipe",
                  !.user = u, !.target = r, !.id = n,
                  !.has_ingredients = has, !.ingredients = list,
                  !.has_cooking_time = hasct, !.cooking_time = ct]

IdsOf(list) == { list[j][1] : j \in DOMAIN list }
LineSet(list) == { list[j] : j \in DOMAIN list }

\* validate_ingredients: empty, then repeated ids, then ids not in the store
validate_ingredients(list) ==
    IF list = <<>> THEN "empty"
    ELSE IF Len(list) # Cardinality(IdsOf(list)) THEN "duplicate"
    ELSE IF IdsOf(list) \ IngredientIds # {} THEN "missing"
    ELSE "ok"

\* items that are not validated one by one
ItemErrors_Unchecked(list) == {}

\* the child serializer of every item: PrimaryKeyRelatedField over the
\* Ingredient table and IntegerField(min_value=1)
ItemErrors(list) ==
    { <<"ingredients", "does_not_exist">> :
        j \in { k \in DOMAIN list : list[k][1] \notin IngredientIds } }
    \cup { <<"ingredients", "min_value">> :
        j \in { k \in DOMAIN list : list[k][2] < 1 } }

\* field `ingredients` (many=True, allow_empty=False): the field's own
\* validation, then validate_ingredients on its result
IngredientsFieldErrors(has, list, partial) ==
    IF ~ has THEN (IF partial THEN {} ELSE {<<"ingredients", "required">>})
    ELSE IF list = <<>> THEN {<<"ingredients", "empty">>}
    ELSE IF ItemErrors(list) # {} THEN ItemErrors(list)
    ELSE IF validate_ingredients(list) # "ok"
           THEN {<<"ingredients", validate_ingredients(list)>>}
    ELSE {}

\* field `cooking_time`: IntegerField(min_value=1)
CookingTimeFieldErrors(has, ct, partial) ==
    IF ~ has THEN (IF partial THEN {} ELSE {<<"cooking_time", "required">>})
    ELSE IF ct < 1 THEN {<<"cooking_time", "min_value">>}
    ELSE {}

\* a validate that asks for the key `ingredients` on PUT only
validate_FullUpdateOnly(method, has) ==
    IF method = "PUT" /\ ~ has
      THEN {<<"ingredients", "required">>}
      ELSE {}

\* validate(attrs): PATCH and PUT must carry the key `ingredients`
validate(method, has) ==
    IF method \in {"PATCH", "PUT"} /\ ~ has
      THEN {<<"ingredients", "required">>}
      ELSE {}

\* a serializer run with partial=True and without validate: no key is required
RunValidation_NothingRequired(method, has, list, hasct, ct) ==
    IngredientsFieldErrors(has, list, TRUE)
    \cup CookingTimeFieldErrors(hasct, ct, TRUE)

\* is_valid: field errors are collected first; validate runs only without any
RunValidation(method, has, list, hasct, ct) ==
    LET fieldErrors ==
            IngredientsFieldErrors(has, list, method = "PATCH")
            \cup CookingTimeFieldErrors(hasct, ct, method = "PATCH")
    IN  IF fieldErrors # {} THEN fieldErrors ELSE validate(method, has)

InvalidResp(errs) == [ValidationError("invalid") EXCEPT !.errors = errs]

\* reverse accessors of Recipe: related_name="%(class)ss" of the two relation
\* models and related_name="recipe_ingredients"
RecipeReverseNames == {"favoriterecipes", "shoppingcarts", "recipe_ingredients"}

\* RecipeIngredient.Meta.ordering = [recipe, ingredient]
LinesSeq(lines) ==
    CHOOSE ls \in [1 .. Cardinality(lines) -> lines] :
        /\ \A i \in DOMAIN ls : \A j \in DOMAIN ls : ls[i] = ls[j] => i = j
        /\ \A i \in DOMAIN ls : \A j \in DOMAIN ls : i < j => ls[i][1] <= ls[j][1]

\* related_name="%(class)ss" of UserRecipeRelation.recipe
RelatedName(model) ==
    IF model = "FavoriteRecipe" THEN "favoriterecipes" ELSE "shoppingcarts"

\* get_is_favorited / get_is_in_shopping_cart: the accessor each one asks for
RelationFields == {"is_favorited", "is_in_shopping_cart"}
RelationName(field) ==
    IF field = "is_favorited" THEN "favorited_by" ELSE "in_shopping_carts"

\* getattr(obj, relation_name).filter(user=request.user).exists()
RelationExists(u, r, relation_name) ==
    \E m \in RelationModels :
        RelatedName(m) = relation_name /\ urr[m][<<u, r>>] # {}

\* RecipeReadSerializer: the ingredient lines, then the two relation fields;
\* _check_relation stops at is_authenticated for an anonymous requester
\* (user 0) and calls getattr(obj, relation_name) for any other
ReadRepresentation(u, code, r, row) ==
    IF u # 0 /\ \E f \in RelationFields : RelationName(f) \notin RecipeReverseNames
      THEN ServerError("AttributeError")
      ELSE [Response(code) EXCEPT
              !.body = LinesSeq(row.lines),
              !.flags = { f \in RelationFields :
                            u # 0 /\ RelationExists(u, r, RelationName(f)) }]

\* GET recipes/{id}/
RecipeRetrieve(w, u, r) ==
    /\ Idle(w)
    /\ nreq < MaxRequests
    /\ nreq' = nreq + 1
    /\ req' = [req EXCEPT ![w] =
                  RecipeReq("recipe_detail", "GET", u, r, nreq + 1,
                            FALSE, <<>>, FALSE, 0)]
    /\ loc' = [loc EXCEPT ![w] = NoLoc]
    /\ IF recipe[r] = NoRecipe
         THEN Finish(w, Http404)
         ELSE Finish(w, ReadRepresentation(u, 200, r, recipe[r]))
    /\ UNCHANGED <<recipe, urr, subscription, avatar, tx>>

\* Meta.fields of the write serializer: the keys of validated_data
WriteFields == {"ingredients", "image", "name", "text", "cooking_time"}

\* perform_create: serializer.save(author=request.user) adds its keyword
\* arguments to validated_data
SaveKwargs == {"author"}

\* create: Recipe.objects.create(author=..., **validated_data) after
\* validated_data.pop("ingredients")
CreateKeywordClash(keys) == "author" \in (keys \ {"ingredients"})

FreeRecipeIds == { r \in RecipeIds : recipe[r] = NoRecipe }

\* POST recipes/
RecipeCreate(w, u, list, ct) ==
    /\ Idle(w)
    /\ nreq < MaxRequests
    /\ nreq' = nreq + 1
    /\ req' = [req EXCEPT ![w] =
                  RecipeReq("recipe_list", "POST", u, 0, nreq + 1,
                            TRUE, list, TRUE, ct)]
    /\ loc' = [loc EXCEPT ![w] = NoLoc]
    /\ LET errs == RunValidation("POST", TRUE, list, TRUE, ct)
       IN  IF errs # {}
             THEN /\ Finish(w, InvalidResp(errs))
                  /\ UNCHANGED recipe
           ELSE IF CreateKeywordClash(WriteFields \cup SaveKwargs)
             THEN /\ Finish(w, ServerError("TypeError"))
                  /\ UNCHANGED recipe
           ELSE /\ FreeRecipeIds # {}
                /\ LET r == CHOOSE x \in FreeRecipeIds :
                                \A y \in FreeRecipeIds : x <= y
                       row == [author |-> u, cooking_time |-> ct,
                               lines |-> LineSet(list)]
                   IN  /\ recipe' = [recipe EXCEPT ![r] = row]
                       /\ Finish(w, ReadRepresentation(u, 201, r, row))
    /\ UNCHANGED <<urr, subscription, avatar, tx>>

\* update without @transaction.atomic: every statement commits on its own
UpdateIsAtomic_Missing == FALSE

\* @transaction.atomic on update
UpdateIsAtomic == TRUE

\* the recipe as the worker's statements see it
TxView(w) == IF UpdateIsAtomic THEN tx[w].row ELSE recipe[req[w].target]

\* a statement of the update writes the recipe: inside the transaction when
\* there is one, straight to the store otherwise
StoreWrite(w, row, deleted, inserted) ==
    IF UpdateIsAtomic
      THEN /\ tx' = [tx EXCEPT ![w] = [recipe |-> req[w].target, row |-> row,
                                       deleted |-> deleted, inserted |-> inserted]]
           /\ UNCHANGED recipe
      ELSE /\ recipe' = [recipe EXCEPT ![req[w].target] = row]
           /\ UNCHANGED tx

\* an update whose first statement takes no row lock
RowLocked_Never(w) == FALSE

\* the row lock taken by the UPDATE of another open transaction
RowLocked(w) == \E v \in Workers : v # w /\ tx[v].recipe = req[w].target

\* PUT / PATCH recipes/{id}/: get_object, permissions, is_valid
RecipeUpdateBegin(w, method, u, r, has, list, hasct, ct) ==
    /\ Idle(w)
    /\ nreq < MaxRequests
    /\ nreq' = nreq + 1
    /\ req' = [req EXCEPT ![w] =
                  RecipeReq("recipe_detail", method, u, r, nreq + 1,
                            has, list, hasct, ct)]
    /\ LET errs == RunValidation(method, has, list, hasct, ct)
       IN  IF recipe[r] = NoRecipe
             THEN /\ Finish(w, Http404)
                  /\ loc' = [loc EXCEPT ![w] = NoLoc]
           ELSE IF ~ IsAuthor(u, r)
             THEN /\ Finish(w, PermissionDenied)
                  /\ loc' = [loc EXCEPT ![w] = NoLoc]
           ELSE IF errs # {}
             THEN /\ Finish(w, InvalidResp(errs))
                  /\ loc' = [loc EXCEPT ![w] = NoLoc]
           ELSE /\ pc' = [pc EXCEPT ![w] = "save"]
                /\ resp' = [resp EXCEPT ![w] = NoResp]
                /\ loc' = [loc EXCEPT ![w] = [NoLoc EXCEPT !.instance = recipe[r]]]
    /\ UNCHANGED <<recipe, urr, subscription, avatar, tx>>

IsUpdate(w) == req[w].view = "recipe_detail" /\ req[w].method \in {"PUT", "PATCH"}

\* super().update: the validated scalars are set on the loaded instance and
\* instance.save() writes every column of the row
RecipeUpdateSave(w) ==
    /\ pc[w] = "save"
    /\ IsUpdate(w)
    /\ ~ RowLocked(w)
    /\ StoreWrite(w, [author |-> loc[w].instance.author,
                      cooking_time |-> IF req[w].has_cooking_time
                                         THEN req[w].cooking_time
                                         ELSE loc[w].instance.cooking_time,
                      lines |-> recipe[req[w].target].lines],
                  {}, {})
    /\ Goto(w, IF req[w].has_ingredients THEN "clear" ELSE "commit")
    /\ UNCHANGED <<urr, subscription, avatar, req, loc, nreq>>

\* an update that inserts the submitted lines without clearing the old ones
RecipeUpdateClear_Skipped(w) ==
    /\ pc[w] = "clear"
    /\ IsUpdate(w)
    /\ StoreWrite(w, TxView(w), {}, {})
    /\ Goto(w, "bulk_create")
    /\ UNCHANGED <<urr, subscription, avatar, req, loc, nreq>>

\* instance.ingredients.clear()
RecipeUpdateClear(w) ==
    /\ pc[w] = "clear"
    /\ IsUpdate(w)
    /\ StoreWrite(w, [TxView(w) EXCEPT !.lines = {}], TxView(w).lines, {})
    /\ Goto(w, "bulk_create")
    /\ UNCHANGED <<urr, subscription, avatar, req, loc, nreq>>

\* _create_ingredients: one bulk INSERT under unique_recipe_ingredient
RecipeUpdateBulkCreate(w) ==
    /\ pc[w] = "bulk_create"
    /\ IsUpdate(w)
    /\ IF \E ln \in TxView(w).lines : ln[1] \in IdsOf(req[w].ingredients)
         THEN /\ Finish(w, ServerError("IntegrityError"))
              /\ tx' = [tx EXCEPT ![w] = NoTx]
              /\ UNCHANGED recipe
         ELSE /\ StoreWrite(w, [TxView(w) EXCEPT
                                  !.lines = @ \cup LineSet(req[w].ingredients)],
                            tx[w].deleted, LineSet(req[w].ingredients))
              /\ Goto(w, "commit")
    /\ UNCHANGED <<urr, subscription, avatar, req, loc, nreq>>

\* what the commit leaves in the store: the scalars of the UPDATE, and the
\* committed lines less the rows the transaction deleted plus those it inserted
Committed(w) ==
    IF UpdateIsAtomic
      THEN [TxView(w) EXCEPT
              !.lines = (recipe[req[w].target].lines \ tx[w].deleted)
                        \cup tx[w].inserted]
      ELSE recipe[req[w].target]

\* leaving update() commits; Response(serializer.data) renders the recipe
RecipeUpdateCommit(w) ==
    /\ pc[w] = "commit"
    /\ IsUpdate(w)
    /\ recipe' = [recipe EXCEPT ![req[w].target] = Committed(w)]
    /\ tx' = [tx EXCEPT ![w] = NoTx]
    /\ Finish(w, ReadRepresentation(req[w].user, 200, req[w].target,
                                    Committed(w)))
    /\ UNCHANGED <<urr, subscription, avatar, req, loc, nreq>>

\* ---- recipe writes and reads, two requests in any interleaving --------------
WriteLists ==
    { << <<i, 1>> >> : i \in {1, NIngredients} }
    \cup { << <<i, MaxAmount>>, <<(i % NIngredients) + 1, 1>> >> :
             i \in {1, NIngredients} }

InitWrite ==
    /\ recipe = [r \in RecipeIds |->
                    IF r = 1 THEN CatalogueRecipe(1, {1, 2}) ELSE NoRecipe]
    /\ urr = EmptyUrr
    /\ subscription = EmptySubscription
    /\ avatar = NoAvatars
    /\ pc = [w \in Workers |-> "idle"]
    /\ req = [w \in Workers |-> NoReq]
    /\ loc = [w \in Workers |-> NoLoc]
    /\ resp = [w \in Workers |-> NoResp]
    /\ tx = [w \in Workers |-> NoTx]
    /\ nreq = MaxRequests - 2

NextWrite ==
    \E w \in Workers :
        \/ \E u \in Users, list \in WriteLists : RecipeCreate(w, u, list, 2)
        \/ \E method \in {"PUT", "PATCH"}, u \in Users, r \in RecipeIds,
              has \in BOOLEAN, hasct \in BOOLEAN :
                \E list \in (IF has THEN WriteLists ELSE {<<>>}) :
                    RecipeUpdateBegin(w, method, u, r, has, list, hasct,
                                      IF hasct THEN 2 ELSE 0)
        \/ RecipeUpdateSave(w)
        \/ RecipeUpdateClear(w)
        \/ RecipeUpdateBulkCreate(w)
        \/ RecipeUpdateCommit(w)
        \/ \E u \in {0} \cup Users, r \in RecipeIds : RecipeRetrieve(w, u, r)

SpecWrite == InitWrite /\ [][NextWrite]_vars

\* ---- UserViewSet.avatar ------------------------------------------------------
\* request.data.get('avatar'): missing or empty; a string without ';base64,';
\* a data URI whose payload b64decode rejects; a well-formed image
AvatarData == {"absent", "no_separator", "bad_base64", "image"}

AvatarReq(method, u, n, data) ==
    [RelationReq("me_avatar", method, "User", u, 0, n) EXCEPT !.avatar = data]

\* PUT users/me/avatar/: inside the try block the stored file is deleted
\* first, then the string is split and decoded, then the new file is saved;
\* any exception becomes Response({"error": str(e)}, 400)
AvatarPut(w, u, data) ==
    /\ Idle(w)
    /\ nreq < MaxRequests
    /\ nreq' = nreq + 1
    /\ req' = [req EXCEPT ![w] = AvatarReq("PUT", u, nreq + 1, data)]
    /\ loc' = [loc EXCEPT ![w] = NoLoc]
    /\ CASE data = "absent" ->
                /\ Finish(w, [Response(400) EXCEPT
                                 !.errors = {<<"avatar", "required">>}])
                /\ UNCHANGED avatar
         [] data = "no_separator" ->
                /\ avatar' = [avatar EXCEPT ![u] = <<>>]
                /\ Finish(w, [Response(400) EXCEPT !.detail = "ValueError"])
         [] data = "bad_base64" ->
                /\ avatar' = [avatar EXCEPT ![u] = <<>>]
                /\ Finish(w, [Response(400) EXCEPT !.detail = "binascii.Error"])
         [] OTHER ->
                /\ avatar' = [avatar EXCEPT ![u] = <<nreq + 1>>]
                /\ Finish(w, Response(200))
    /\ UNCHANGED <<recipe, urr, subscription, tx>>

\* DELETE users/me/avatar/
AvatarDelete(w, u) ==
    /\ Idle(w)
    /\ nreq < MaxRequests
    /\ nreq' = nreq + 1
    /\ req' = [req EXCEPT ![w] = AvatarReq("DELETE", u, nreq + 1, "absent")]
    /\ loc' = [loc EXCEPT ![w] = NoLoc]
    /\ IF avatar[u] # <<>>
         THEN /\ avatar' = [avatar EXCEPT ![u] = <<>>]
              /\ Finish(w, Response(204))
         ELSE /\ Finish(w, [Response(404) EXCEPT !.detail = "no_avatar"])
              /\ UNCHANGED avatar
    /\ UNCHANGED <<recipe, urr, subscription, tx>>

\* every user starts with or without a stored avatar (file 0)
InitAvatar ==
    /\ recipe = [r \in RecipeIds |-> DefaultRecipe(r)]
    /\ urr = EmptyUrr
    /\ subscription = EmptySubscription
    /\ avatar \in [Users -> {<<>>, <<0>>}]
    /\ IdleWorkers

NextAvatar ==
    \E w \in Workers, u \in Users :
        \/ \E data \in AvatarData : AvatarPut(w, u, data)
        \/ AvatarDelete(w, u)

SpecAvatar == InitAvatar /\ [][NextAvatar]_vars

\* ---- recipes.admin.CookingTimeFilter ------------------------------------------
\* buckets are offered only when max - min exceeds this
BucketMinRange == 5

Buckets == <<"quick", "medium", "long">>

\* [r.cooking_time for r in Recipe.objects.all()], kept by recipe id
CookingTimes == { r \in DOMAIN recipe : recipe[r] # NoRecipe }
TimeOf(r) == recipe[r].cooking_time
MinTime == CHOOSE t \in { TimeOf(r) : r \in CookingTimes } :
               \A r \in CookingTimes : t <= TimeOf(r)
MaxTime == CHOOSE t \in { TimeOf(r) : r \in CookingTimes } :
               \A r \in CookingTimes : t >= TimeOf(r)

BucketsOffered == CookingTimes # {} /\ MaxTime - MinTime > BucketMinRange

\* self._thresholds
Thresholds ==
    <<MinTime + ((MaxTime - MinTime) \div 3),
      MinTime + ((2 * (MaxTime - MinTime)) \div 3)>>

\* the counting loop of lookups: t < threshold1, elif t < threshold2, else
CountedIn(r) ==
    IF TimeOf(r) < Thresholds[1] THEN "quick"
    ELSE IF TimeOf(r) < Thresholds[2] THEN "medium"
    ELSE "long"

lookups ==
    IF ~ BucketsOffered THEN <<>>
    ELSE [i \in DOMAIN Buckets |->
            <<i, Cardinality({ r \in CookingTimes : CountedIn(r) = Buckets[i] })>>]

\* queryset: cooking_time__lte=threshold1; __gt=threshold1 and
\* __lte=threshold2; __gt=threshold2
queryset(value) ==
    IF value = "none" \/ ~ BucketsOffered THEN CookingTimes
    ELSE IF value = "quick"
      THEN { r \in CookingTimes : TimeOf(r) <= Thresholds[1] }
    ELSE IF value = "medium"
      THEN { r \in CookingTimes :
               TimeOf(r) > Thresholds[1] /\ TimeOf(r) <= Thresholds[2] }
    ELSE IF value = "long"
      THEN { r \in CookingTimes : TimeOf(r) > Thresholds[2] }
    ELSE CookingTimes

\* the recipe ids of a result, ascending
Listing(ids) ==
    CHOOSE ls \in [1 .. Cardinality(ids) -> ids] :
        \A i \in DOMAIN ls : \A j \in DOMAIN ls : i < j => ls[i] < ls[j]

\* the admin changelist of Recipe with ?cooking_time=value: the sidebar
\* shows lookups, the list shows queryset
AdminChangelist(w, value) ==
    /\ Idle(w)
    /\ nreq < MaxRequests
    /\ nreq' = nreq + 1
    /\ req' = [req EXCEPT ![w] =
                  [RelationReq("admin_recipe_changelist", "GET", "Recipe",
                               0, 0, nreq + 1) EXCEPT !.value = value]]
    /\ loc' = [loc EXCEPT ![w] = [NoLoc EXCEPT !.lines = Listing(queryset(value))]]
    /\ Finish(w, [Response(200) EXCEPT !.body = lookups])
    /\ UNCHANGED <<recipe, urr, subscription, avatar, tx>>

\* any table of up to NAdminRecipes recipes with any cooking times
InitAdmin ==
    /\ \E f \in [1 .. NAdminRecipes -> 0 .. MaxCookingTime] :
          recipe = [r \in 1 .. NAdminRecipes |->
                       IF f[r] = 0 THEN NoRecipe
                       ELSE [DefaultRecipe(r) EXCEPT !.cooking_time = f[r]]]
    /\ urr = EmptyUrr
    /\ subscription = EmptySubscription
    /\ avatar = NoAvatars
    /\ IdleWorkers

NextAdmin ==
    \E w \in Workers, value \in {"none", "quick", "medium", "long"} :
        AdminChangelist(w, value)

SpecAdmin == InitAdmin /\ [][NextAdmin]_vars

\* ---- relations, recipe deletion, reads and downloads together ---------------
NextCascade ==
    \E w \in Workers :
        \/ \E method \in {"POST", "DELETE"}, model \in RelationModels,
              u \in Users, r \in RecipeIds :
                RecipeRelationBegin(w, method, model, u, r)
        \/ RecipeRelationGet(w)
        \/ RecipeRelationCreate(w)
        \/ RecipeRelationReget(w)
        \/ RecipeRelationFirst(w)
        \/ RecipeRelationDelete(w)
        \/ \E u \in Users, r \in RecipeIds : DestroyRecipe(w, u, r)
        \/ \E u \in {0} \cup Users, r \in RecipeIds : RecipeRetrieve(w, u, r)
        \/ \E u \in Users : DownloadBegin(w, u)
        \/ DownloadAggregate(w)
        \/ DownloadRender(w)

SpecCascade == Init /\ [][NextCascade]_vars

\* ---- recipe writes with ingredient lists of every kind -----------------------
\* an id the Ingredient table does not hold
UnknownIngredientId == NIngredients + 1

\* empty; a repeated id; an unknown id; an amount below 1; a repeated unknown
\* id; a repeated id next to an unknown one
InvalidLists ==
    { <<>>,
      << <<1, 2>>, <<1, 3>> >>,
      << <<UnknownIngredientId, 1>> >>,
      << <<1, 0>> >>,
      << <<UnknownIngredientId, 1>>, <<UnknownIngredientId, 2>> >>,
      << <<1, 1>>, <<1, 2>>, <<UnknownIngredientId, 1>> >> }

SubmittedLists == WriteLists \cup InvalidLists

NextValidate ==
    \E w \in Workers :
        \/ \E u \in Users, list \in SubmittedLists : RecipeCreate(w, u, list, 2)
        \/ \E method \in {"PUT", "PATCH"}, u \in Users, r \in RecipeIds,
              list \in SubmittedLists :
                RecipeUpdateBegin(w, method, u, r, TRUE, list, TRUE, 2)
        \/ RecipeUpdateSave(w)
        \/ RecipeUpdateClear(w)
        \/ RecipeUpdateBulkCreate(w)
        \/ RecipeUpdateCommit(w)

SpecValidate == InitWrite /\ [][NextValidate]_vars

\* ---- two requests on one relation, already past their target lookup --------
InitRace ==
    \E view \in {"recipe_relation", "subscribe"}, m1 \in {"POST", "DELETE"},
       m2 \in {"POST", "DELETE"}, model \in RelationModels,
       u \in Users, t \in RecipeIds \cap Users, prior \in BOOLEAN :
        /\ view = "subscribe" => u # t
        /\ recipe = [r \in RecipeIds |-> DefaultRecipe(r)]
        /\ urr = [EmptyUrr EXCEPT ![model][<<u, t>>] =
                     IF prior /\ view = "recipe_relation" THEN {0} ELSE {}]
        /\ subscription = [EmptySubscription EXCEPT ![<<u, t>>] =
                     IF prior /\ view = "subscribe" THEN {0} ELSE {}]
        /\ avatar = NoAvatars
        /\ pc = [w \in Workers |->
                    IF w > 2 THEN "idle"
                    ELSE IF (IF w = 1 THEN m1 ELSE m2) = "POST" THEN "get" ELSE "first"]
        /\ req = [w \in Workers |->
                    IF w > 2 THEN NoReq
                    ELSE RelationReq(view, IF w = 1 THEN m1 ELSE m2,
                                 IF view = "subscribe" THEN "Subscription" ELSE model,
                                 u, t, w)]
        /\ loc = [w \in Workers |-> NoLoc]
        /\ resp = [w \in Workers |-> NoResp]
        /\ tx = [w \in Workers |-> NoTx]
        /\ nreq = 2

NextRace == \E w \in Workers : RelationStep(w)

SpecRace == InitRace /\ [][NextRace]_vars

\* ---- relation properties ---------------------------------------------------
RowsOf(w) == IF req[w].view = "subscribe" THEN SubRows(w) ELSE RelRows(w)

AlreadyExistsResp(w) ==
    IF req[w].view = "subscribe"
      THEN ValidationError(AlreadySubscribedMessage)
      ELSE ValidationError(already_exists_message(req[w].model))

NotFoundResp(w) ==
    IF req[w].view = "subscribe"
      THEN ValidationError(NotSubscribedMessage)
      ELSE ValidationError(not_found_message(req[w].model))

IsRelationReq(w) == req[w].view \in {"recipe_relation", "subscribe"}

AtMostOneRowPerPair ==
    /\ \A m \in RelationModels : \A k \in Users \X RecipeIds :
          Cardinality(urr[m][k]) <= 1
    /\ \A k \in Users \X Users : Cardinality(subscription[k]) <= 1

\* a step of an add request that meets an existing row ends the request with
\* AlreadyExists or moves to the lookup that will, and inserts nothing
DuplicateAddRejected ==
    \A w \in Workers :
        ( /\ IsRelationReq(w) /\ req[w].method = "POST"
          /\ pc[w] \in {"get", "create", "reget"}
          /\ RowsOf(w) # {}
          /\ pc'[w] # pc[w] )
        => /\ UNCHANGED <<urr, subscription, avatar>>
           /\ \/ pc'[w] = "done" /\ resp'[w] = AlreadyExistsResp(w)
              \/ pc[w] = "create" /\ pc'[w] = "reget"

\* C1: a duplicate add fails with AlreadyExists and creates no row; every
\* relation table holds at most one row per (user, target) pair after any
\* sequence of add and remove requests.
C1_NoDuplicateRelation == []AtMostOneRowPerPair /\ [][DuplicateAddRejected]_vars

C1_Witness ==
    \E w \in Workers :
        /\ pc[w] = "done" /\ IsRelationReq(w) /\ req[w].method = "POST"
        /\ resp[w] = AlreadyExistsResp(w)
        /\ Cardinality(RowsOf(w)) = 1

\* ---- concurrent duplicate adds (checked under SpecRace) --------------------
BothDone == pc[1] = "done" /\ pc[2] = "done"
BothMethod(m) == req[1].method = m /\ req[2].method = m
NoPriorRow == 0 \notin RowsOf(1)

\* C2: two concurrent adds of the same (user, target) with no prior row leave
\* exactly one row, one success response and one AlreadyExists response, and
\* neither request ever ends in a server error.
C2_ConcurrentAddOneWinner ==
    (BothMethod("POST") /\ NoPriorRow) =>
        /\ \A w \in {1, 2} : resp[w].status # 500
        /\ BothDone =>
              /\ Cardinality(RowsOf(1)) = 1
              /\ \E w \in {1, 2} :
                    /\ resp[w].status = 201
                    /\ resp[3 - w] = AlreadyExistsResp(3 - w)

C2_Witness ==
    /\ BothMethod("POST") /\ NoPriorRow /\ BothDone
    /\ \E w \in {1, 2} : resp[w].status = 201 /\ RowsOf(1) = {req[w].id}
                         /\ resp[3 - w].status = 400

\* ---- remove of a missing relation ------------------------------------------
ErrorKind(r) == <<r.status, r.exc>>

RemoveMissing(w) ==
    /\ IsRelationReq(w) /\ req[w].method = "DELETE"
    /\ pc[w] = "done" /\ resp[w] = NotFoundResp(w)

DuplicateAdd(w) ==
    /\ IsRelationReq(w) /\ req[w].method = "POST"
    /\ pc[w] = "done" /\ resp[w] = AlreadyExistsResp(w)

RemoveMissingStep(w) ==
    /\ IsRelationReq(w) /\ req[w].method = "DELETE"
    /\ pc[w] = "first" /\ RowsOf(w) = {}
    /\ pc'[w] # pc[w]

C4_AtMostOneRemoveSucceeds ==
    (BothMethod("DELETE") /\ BothDone) =>
        ~ (resp[1].status = 204 /\ resp[2].status = 204)

\* ---- self subscription -----------------------------------------------------
NoSelfSubscription == \A u \in Users : subscription[<<u, u>>] = {}

SelfCheckFirst ==
    \A w \in Workers :
        (req[w].view = "subscribe" /\ req[w].method = "POST"
            /\ req[w].user = req[w].target)
        => /\ pc[w] = "done"
           /\ resp[w] = ValidationError(SelfSubscribeMessage)

\* C5: subscribing to oneself fails with SelfSubscription before get_or_create
\* is reached, so no Subscription row has user = author.
C5_NoSelfSubscription == NoSelfSubscription /\ SelfCheckFirst

C5_Witness ==
    \E w \in Workers :
        /\ req[w].view = "subscribe" /\ req[w].method = "POST"
        /\ req[w].user = req[w].target
        /\ resp[w] = ValidationError(SelfSubscribeMessage)
        /\ \E a \in Users : subscription[<<req[w].user, a>>] # {}

\* ---- shopping-list properties (checked under SpecCart) ---------------------
IsDownload(w) == req[w].view = "download_shopping_cart"

Range(f) == { f[i] : i \in DOMAIN f }

\* recipes carted by u, each counted once
CartRecipes(u) ==
    { r \in RecipeIds : recipe[r] # NoRecipe /\ urr["ShoppingCart"][<<u, r>>] # {} }

\* RecipeIngredient.amount of ingredient i in recipe r, 0 when r does not list i
AmountOf(r, i) ==
    IF \E ln \in recipe[r].lines : ln[1] = i
      THEN (CHOOSE ln \in recipe[r].lines : ln[1] = i)[2]
      ELSE 0

RECURSIVE SumOverRecipes(_, _)
SumOverRecipes(rs, i) ==
    IF rs = {} THEN 0
    ELSE LET r == CHOOSE x \in rs : TRUE
         IN  AmountOf(r, i) + SumOverRecipes(rs \ {r}, i)

CartIngredients(u) ==
    { i \in IngredientIds : \E r \in CartRecipes(u) : AmountOf(r, i) > 0 }

ExpectedLines(u) ==
    { [name |-> IngredientName(i), unit |-> IngredientUnit(i),
       total |-> SumOverRecipes(CartRecipes(u), i)] : i \in CartIngredients(u) }

AscendingNames(ls) ==
    \A i \in DOMAIN ls : \A j \in DOMAIN ls : i < j => ls[i].name <= ls[j].name

AggregateStep(w) == pc[w] = "aggregate" /\ pc'[w] = "recipes"

\* C6: the export of a non-empty cart has exactly one line per distinct
\* ingredient of the carted recipes, its total the sum of that ingredient's
\* amounts over the carted recipes (each recipe once), ascending by name.
C6_AggregationIsSumPerIngredient ==
    [][\A w \in Workers :
          /\ (AggregateStep(w) /\ CartRecipes(req[w].user) # {}) =>
                /\ Range(loc'[w].lines) = ExpectedLines(req[w].user)
                /\ Len(loc'[w].lines) = Cardinality(CartIngredients(req[w].user))
                /\ AscendingNames(loc'[w].lines)
          /\ (IsDownload(w) /\ pc[w] = "recipes" /\ pc'[w] = "done") =>
                /\ resp'[w].status = 200
                /\ resp'[w].body = loc[w].lines]_vars

\* the example of the specification: A{X=2}, B{X=3,Y=1} gives [X 5, Y 1]
C6_Witness ==
    \E w \in Workers :
        /\ IsDownload(w) /\ pc[w] = "done"
        /\ recipe[1].lines = {<<1, 2>>}
        /\ recipe[2].lines = {<<1, 3>>, <<3, 1>>}
        /\ resp[w].body = << [name |-> 1, unit |-> 1, total |-> 5],
                             [name |-> 2, unit |-> 1, total |-> 1] >>

\* stores that agree with the current one on u's ShoppingCart rows and on the
\* carted recipes, and differ in other users' cart rows, in favorites, in
\* subscriptions and in recipes u has not carted
RowChoices == {{}, {0}}

\* a relation table in which every user of `us` holds a row for every target
RowsOfUsers(us, targets) ==
    [k \in Users \X targets |-> IF k[1] \in us THEN {0} ELSE {}]

AltStores(u) ==
    { [recipe |-> rec, urr |-> [FavoriteRecipe |-> fav, ShoppingCart |-> crt],
       subscription |-> sub] :
        rec \in { f \in [RecipeIds -> {NoRecipe, CatalogueRecipe(1, IngredientIds)}
                                        \cup Range(recipe)] :
                    \A r \in CartRecipes(u) : f[r] = recipe[r] },
        fav \in { RowsOfUsers(us, RecipeIds) : us \in SUBSET Users },
        crt \in { c \in [Users \X RecipeIds -> RowChoices \cup Range(urr["ShoppingCart"])] :
                    /\ \A r \in RecipeIds : c[<<u, r>>] = urr["ShoppingCart"][<<u, r>>]
                    /\ \A k \in Users \X RecipeIds :
                          k[1] # u => c[k] \in RowChoices },
        sub \in { RowsOfUsers(us, Users) : us \in SUBSET Users } }

\* C7: the lines returned to u are those of every store that agrees on u's
\* own cart rows and carted recipes, whatever other users carted, favorited
\* or subscribed to.
C7_ScopedToRequestingUser ==
    [][\A w \in Workers :
          AggregateStep(w) =>
              \A alt \in AltStores(req[w].user) :
                  Range(loc'[w].lines) = AggregatedLines(alt, req[w].user)]_vars

C7_Witness ==
    \E w \in Workers : \E v \in Users : \E r \in RecipeIds :
        /\ IsDownload(w) /\ pc[w] = "done" /\ resp[w].status = 200
        /\ v # req[w].user
        /\ urr["ShoppingCart"][<<v, r>>] # {}
        /\ urr["ShoppingCart"][<<req[w].user, r>>] # {}

HasCartRow(u) == \E r \in RecipeIds : urr["ShoppingCart"][<<u, r>>] # {}

DownloadArrives(w) ==
    /\ nreq' = nreq + 1
    /\ req'[w].id = nreq'
    /\ req'[w].view = "download_shopping_cart"

EmptyCartResp == ValidationError(EmptyCartMessage)

\* C8: a download fails with EmptyCart, producing no document, exactly when
\* the user has no ShoppingCart row when the request is made; any other
\* download ends in success.
C8_EmptyCartIffNoRows ==
    /\ [][\A w \in Workers :
            DownloadArrives(w) =>
                ( ~ HasCartRow(req'[w].user)
                    <=> (pc'[w] = "done" /\ resp'[w] = EmptyCartResp) )]_vars
    /\ [](\A w \in Workers :
            (IsDownload(w) /\ pc[w] = "done") =>
                \/ resp[w] = EmptyCartResp
                \/ resp[w].status = 200)

\* EmptyCart after the user removed the only recipe they had carted
C8_Witness ==
    \E w \in Workers : \E v \in Workers :
        /\ IsDownload(w) /\ pc[w] = "done" /\ resp[w] = EmptyCartResp
        /\ req[w].id = 3
        /\ req[v].view = "recipe_relation" /\ req[v].user = req[w].user
        /\ req[v].method = "DELETE" /\ req[v].id = 2
        /\ pc[v] = "done" /\ resp[v].status = 204

\* ---- recipe write properties (checked under SpecWrite) ---------------------
IsCreate(w) == req[w].view = "recipe_list" /\ req[w].method = "POST"

\* data that passes validation: a non-empty list of distinct existing
\* ingredients with amounts >= 1, and cooking_time >= 1
ValidSubmission(w) ==
    /\ req[w].has_ingredients /\ req[w].ingredients # <<>>
    /\ \A i \in DOMAIN req[w].ingredients : \A j \in DOMAIN req[w].ingredients :
          req[w].ingredients[i][1] = req[w].ingredients[j][1] => i = j
    /\ \A i \in DOMAIN req[w].ingredients :
          /\ req[w].ingredients[i][1] \in IngredientIds
          /\ req[w].ingredients[i][2] >= 1
    /\ req[w].has_cooking_time /\ req[w].cooking_time >= 1

\* C9 as stated: a create request with valid data succeeds and leaves one
\* Recipe row of the acting user with exactly the N submitted lines.
C9_ValidCreateSucceeds ==
    \A w \in Workers :
        (IsCreate(w) /\ pc[w] = "done" /\ ValidSubmission(w)) =>
            /\ resp[w].status = 201
            /\ \E r \in RecipeIds :
                  /\ recipe[r].author = req[w].user
                  /\ recipe[r].lines = LineSet(req[w].ingredients)
                  /\ Cardinality(recipe[r].lines) = Len(req[w].ingredients)

\* what a reader's query can see: the committed rows
EveryRecipeHasLines ==
    \A r \in RecipeIds : recipe[r] # NoRecipe => recipe[r].lines # {}

IsRead(w) == req[w].view = "recipe_detail" /\ req[w].method = "GET"

\* the line sets that were ever whole: the catalogue's and the submitted ones
WholeSets ==
    { CatalogueRecipe(1, {1, 2}).lines } \cup { LineSet(l) : l \in WriteLists }

ReaderSawWholeSet ==
    \A w \in Workers :
        (IsRead(w) /\ pc[w] = "done" /\ resp[w].status = 200) =>
            /\ resp[w].body # <<>>
            /\ Range(resp[w].body) \in WholeSets

ReplacedAtOnce ==
    \A r \in RecipeIds :
        (recipe[r] # NoRecipe /\ recipe'[r] # recipe[r]) =>
            \E w \in Workers :
                /\ IsUpdate(w) /\ req[w].target = r
                /\ recipe'[r].lines = LineSet(req[w].ingredients)
                /\ recipe'[r].lines # {}

\* C10: committed state never shows a recipe without ingredient lines, a
\* recipe's lines change only from the previous set to a whole submitted set
\* in one step, and every read returns a whole non-empty set.
C10_NoPartialRecipeVisible ==
    /\ [](EveryRecipeHasLines /\ ReaderSawWholeSet)
    /\ [][ReplacedAtOnce]_vars

\* a read of the recipe answered while an update of it holds cleared lines
C10_Witness ==
    \E w \in Workers : \E v \in Workers :
        /\ IsUpdate(w) /\ pc[w] = "bulk_create" /\ tx[w].row.lines = {}
        /\ IsRead(v) /\ pc[v] = "done" /\ resp[v].status = 200
        /\ req[v].target = req[w].target
        /\ req[v].id > req[w].id
        /\ Range(resp[v].body) = recipe[req[w].target].lines

\* ---- recipe update properties -----------------------------------------------
\* update() returned and its transaction was committed
UpdateCommitted(w) ==
    /\ IsUpdate(w) /\ pc[w] = "done"
    /\ resp[w].exc \notin {"ValidationError", "Http404", "PermissionDenied",
                           "IntegrityError"}

CommitStep(w) == IsUpdate(w) /\ pc[w] = "commit" /\ pc'[w] = "done"

LinesAreExactly(lines, list) ==
    /\ lines = LineSet(list)
    /\ Cardinality(lines) = Len(list)
    /\ \A j \in DOMAIN list : \A ln \in lines :
          ln[1] = list[j][1] => ln[2] = list[j][2]

\* C11: when an update that carries an ingredient list commits, the recipe's
\* RecipeIngredient rows are exactly the submitted lines: as many rows as the
\* list is long, no ingredient of the old set that the list leaves out, and
\* the submitted amount for every ingredient of the list.
C11_UpdateReplacesLines ==
    [][\A w \in Workers :
          (CommitStep(w) /\ req[w].has_ingredients) =>
              /\ LinesAreExactly(recipe'[req[w].target].lines, req[w].ingredients)
              /\ \A old \in recipe[req[w].target].lines :
                    old[1] \notin IdsOf(req[w].ingredients) =>
                        \A ln \in recipe'[req[w].target].lines : ln[1] # old[1]]_vars

\* a committed update that dropped one old ingredient and changed the amount
\* of another
C11_Witness ==
    \E w \in Workers :
        /\ UpdateCommitted(w) /\ req[w].has_ingredients /\ req[w].target = 1
        /\ recipe[1].lines = LineSet(req[w].ingredients)
        /\ \E old \in CatalogueRecipe(1, {1, 2}).lines :
              old[1] \notin IdsOf(req[w].ingredients)
        /\ \E old \in CatalogueRecipe(1, {1, 2}).lines :
              old[1] \in IdsOf(req[w].ingredients)
              /\ old \notin LineSet(req[w].ingredients)

BothCommitted(w, v) ==
    /\ w # v /\ UpdateCommitted(w) /\ UpdateCommitted(v)
    /\ req[w].target = req[v].target
    /\ req[w].has_ingredients /\ req[v].has_ingredients

\* C12: after two updates of one recipe have both committed, in whatever way
\* their statements interleaved, the recipe's lines are the list of one of the
\* two, with as many rows as that list is long and one row per ingredient:
\* never a union or a mix of the two lists.
C12_ConcurrentUpdatesOneList ==
    \A w \in Workers : \A v \in Workers :
        BothCommitted(w, v) =>
            LET lines == recipe[req[w].target].lines
            IN  /\ \/ LinesAreExactly(lines, req[w].ingredients)
                   \/ LinesAreExactly(lines, req[v].ingredients)
                /\ UniqueRecipeIngredient(lines)

\* the update that arrived first committed last, over the list of the other:
\* the two overlapped
C12_Witness ==
    \E w \in Workers : \E v \in Workers :
        /\ BothCommitted(w, v)
        /\ req[v].id < req[w].id
        /\ IdsOf(req[v].ingredients) \cap IdsOf(req[w].ingredients) # {}
        /\ IdsOf(req[v].ingredients) # IdsOf(req[w].ingredients)
        /\ recipe[req[w].target].lines = LineSet(req[v].ingredients)

Arrives(w) == nreq' = nreq + 1 /\ req'[w].id = nreq'

\* an update request of the recipe's author that omits `ingredients` and is
\* otherwise acceptable to the method
OmitsIngredients(w, method) ==
    /\ Arrives(w)
    /\ req'[w].view = "recipe_detail" /\ req'[w].method = method
    /\ recipe[req'[w].target] # NoRecipe
    /\ IsAuthor(req'[w].user, req'[w].target)
    /\ ~ req'[w].has_ingredients

RejectedIngredientsRequired(w) ==
    /\ pc'[w] = "done"
    /\ resp'[w].status = 400 /\ resp'[w].exc = "ValidationError"
    /\ <<"ingredients", "required">> \in resp'[w].errors
    /\ recipe' = recipe /\ tx' = tx

C14_PutWithoutIngredientsRejected ==
    [][\A w \in Workers :
          OmitsIngredients(w, "PUT") => RejectedIngredientsRequired(w)]_vars

\* a rejected PUT with a new cooking_time and no ingredient list
C14_Witness ==
    \E w \in Workers :
        /\ IsUpdate(w) /\ req[w].method = "PUT" /\ pc[w] = "done"
        /\ ~ req[w].has_ingredients /\ req[w].has_cooking_time
        /\ IsAuthor(req[w].user, req[w].target)
        /\ resp[w].status = 400
        /\ <<"ingredients", "required">> \in resp[w].errors
        /\ recipe[req[w].target] = CatalogueRecipe(1, {1, 2})

\* ---- ingredient-list validation properties ----------------------------------
IsWrite(w) == IsCreate(w) \/ IsUpdate(w)

HasRepeatedId(list) == Len(list) # Cardinality(IdsOf(list))
HasUnknownId(list) == IdsOf(list) \ IngredientIds # {}
HasLowAmount(list) == \E j \in DOMAIN list : list[j][2] < 1

\* the error the documented order names first
FirstFailingCheck(list) ==
    IF list = <<>> THEN "EmptyIngredients"
    ELSE IF HasRepeatedId(list) THEN "DuplicateIngredient"
    ELSE IF HasUnknownId(list) THEN "UnknownIngredient"
    ELSE "none"

\* the errors of a response, by their documented names
ErrorNames(r) ==
    { CASE e[2] = "empty" -> "EmptyIngredients"
        [] e[2] = "duplicate" -> "DuplicateIngredient"
        [] e[2] \in {"missing", "does_not_exist"} -> "UnknownIngredient"
        [] OTHER -> e[2] : e \in { x \in r.errors : x[1] = "ingredients" } }

\* C15 as stated: a write whose ingredient list fails one of the three checks
\* is answered with the first failing one in the order empty, repeated id,
\* unknown id; a list that repeats an id and names an unknown ingredient is
\* answered with DuplicateIngredient.
C15_FirstFailingCheckReported ==
    \A w \in Workers :
        (IsWrite(w) /\ pc[w] = "done" /\ req[w].has_ingredients
         /\ resp[w].status \notin {403, 404}
         /\ ~ HasLowAmount(req[w].ingredients)
         /\ FirstFailingCheck(req[w].ingredients) # "none") =>
            ErrorNames(resp[w]) = {FirstFailingCheck(req[w].ingredients)}

RejectableList(list) ==
    list = <<>> \/ HasRepeatedId(list) \/ HasUnknownId(list) \/ HasLowAmount(list)

WriteArrives(w) ==
    /\ Arrives(w)
    /\ \/ req'[w].view = "recipe_list" /\ req'[w].method = "POST"
       \/ req'[w].view = "recipe_detail" /\ req'[w].method \in {"PUT", "PATCH"}
    /\ req'[w].has_ingredients

\* C16: a create or update whose ingredient list is empty, repeats an id,
\* names an unknown ingredient or carries an amount below 1 ends at once in a
\* client error and writes nothing: the Recipe and RecipeIngredient tables
\* and every open transaction are as before, and whatever changes a recipe
\* later is the commit of a request whose list had none of these faults.
C16_RejectedWriteChangesNothing ==
    /\ [][\A w \in Workers :
            (WriteArrives(w) /\ RejectableList(req'[w].ingredients)) =>
                /\ pc'[w] = "done"
                /\ resp'[w].status \in {400, 403, 404}
                /\ recipe' = recipe /\ tx' = tx]_vars
    /\ [][recipe' # recipe =>
            \E w \in Workers :
                /\ CommitStep(w) \/ WriteArrives(w)
                /\ ~ RejectableList(req'[w].ingredients)]_vars

\* the author's PUT with [{id 1, amount 2}, {id 1, amount 3}] was answered
\* with the repeated-id error and the recipe is as it was
C16_Witness ==
    \E w \in Workers :
        /\ IsUpdate(w) /\ pc[w] = "done"
        /\ req[w].ingredients = << <<1, 2>>, <<1, 3>> >>
        /\ resp[w].status = 400
        /\ resp[w].errors = {<<"ingredients", "duplicate">>}
        /\ recipe[req[w].target] = CatalogueRecipe(1, {1, 2})

\* ---- recipe deletion properties ---------------------------------------------
RecipeExists(r) == recipe[r].author \in Users

NoOrphanRows ==
    \A r \in RecipeIds :
        ~ RecipeExists(r) =>
            /\ recipe[r].lines = {}
            /\ \A m \in RelationModels : \A u \in Users : urr[m][<<u, r>>] = {}

CartsHoldExistingRecipes ==
    \A u \in Users :
        \A row \in CartJoin(Store, u) : RecipeExists(row[1][2])

DestroyStep(w) ==
    /\ Arrives(w)
    /\ req'[w].view = "recipe_detail" /\ req'[w].method = "DELETE"
    /\ resp'[w].status = 204

\* C17: no RecipeIngredient, FavoriteRecipe or ShoppingCart row ever refers to
\* a recipe that does not exist, no row that a shopping list is computed from
\* belongs to a deleted recipe, and the step that deletes a recipe removes the
\* recipe, its lines and every relation row on it while leaving the rows of
\* other recipes alone.
C17_DeleteCascades ==
    /\ [](NoOrphanRows /\ CartsHoldExistingRecipes)
    /\ [][\A w \in Workers :
            DestroyStep(w) =>
                LET r == req'[w].target
                IN  /\ recipe[r].author \in Users /\ recipe'[r] = NoRecipe
                    /\ \A m \in RelationModels : \A k \in Users \X RecipeIds :
                          urr'[m][k] = IF k[2] = r THEN {} ELSE urr[m][k]
                    /\ \A x \in RecipeIds \ {r} : recipe'[x] = recipe[x]]_vars

\* a recipe that a user had put in a relation table was deleted by its author
C17_Witness ==
    \E w \in Workers : \E v \in Workers :
        /\ req[w].view = "recipe_detail" /\ req[w].method = "DELETE"
        /\ pc[w] = "done" /\ resp[w].status = 204
        /\ req[v].view = "recipe_relation" /\ req[v].method = "POST"
        /\ pc[v] = "done" /\ resp[v].status = 201
        /\ req[v].target = req[w].target /\ req[v].id < req[w].id
        /\ ~ RecipeExists(req[w].target)
        /\ urr[req[v].model][<<req[v].user, req[v].target>>] = {}

\* ---- read representation properties -----------------------------------------
ReadArrives(w) ==
    /\ Arrives(w)
    /\ req'[w].view = "recipe_detail" /\ req'[w].method = "GET"
    /\ recipe[req'[w].target] # NoRecipe

\* C19 as stated: the representation of an existing recipe, computed for an
\* authenticated requester after any favorite and cart requests, never fails,
\* and is_favorited / is_in_shopping_cart are true exactly when the
\* requester's FavoriteRecipe / ShoppingCart row for the recipe exists.
C19_RelationFlagsMatchRows ==
    [][\A w \in Workers :
          (ReadArrives(w) /\ req'[w].user # 0) =>
              /\ resp'[w].status = 200
              /\ \A m \in RelationModels :
                    (IF m = "FavoriteRecipe" THEN "is_favorited"
                     ELSE "is_in_shopping_cart") \in resp'[w].flags
                    <=> urr[m][<<req'[w].user, req'[w].target>>] # {}]_vars

\* ---- avatar properties ------------------------------------------------------
\* C18 as stated: a PUT me/avatar request that ends in an error response
\* issues no mutation: every user's stored avatar is as it was before.
C18_FailedPutKeepsAvatar ==
    [][\A w \in Workers :
          (Arrives(w) /\ req'[w].view = "me_avatar" /\ req'[w].method = "PUT"
           /\ resp'[w].status # 200) =>
              avatar' = avatar]_vars

\* ---- admin filter properties ------------------------------------------------
\* C20 as stated: whenever buckets are offered, the count shown for a bucket
\* equals the number of recipes the list shows when that bucket is selected.
C20_ShownCountMatchesListing ==
    \A w \in Workers :
        (req[w].view = "admin_recipe_changelist" /\ pc[w] = "done"
         /\ resp[w].body # <<>>) =>
            \A i \in DOMAIN Buckets :
                req[w].value = Buckets[i] =>
                    resp[w].body[i][2] = Len(loc[w].lines)

====
